---- MODULE Spec2Model ----
(***************************************************************************)
(* Model of onCacheEntryAddedInvalidate, the push-driven cache            *)
(* synchronisation handler of the wallet GUI                              *)
(* (packages/wallets/src/hooks/useIsWalletSynced.ts, lines 25-68).        *)
(*                                                                         *)
(* One handler instance runs per cache entry.  It awaits the entry's      *)
(* cacheDataLoaded promise, issues one rtkQuery subscribe call per        *)
(* descriptor, collects the handles the calls resolve with, awaits        *)
(* Promise.all of the calls, and in its finally block awaits              *)
(* cacheEntryRemoved and then invokes every collected handle.             *)
(* The RPC client (rtkQuery), the cache store (cacheDataLoaded,           *)
(* cacheEntryRemoved, updateCachedData, dispatch) and the handles are     *)
(* the environment.                                                       *)
(***************************************************************************)
EXTENDS Integers, Sequences, FiniteSets, TLC

\* ---------------------------------------------------------------- bounds
\* number of descriptors in the invalidates array
NumDesc == 2
\* total number of push events the remote side delivers
MaxPush == 2
\* number of invocations of one unsubscribe handle
MaxInvoke == 3
\* block heights are taken from the reward periods 0..MaxEra
MaxEra == 5

\* ---------------------------------------------------------------- inputs
Entries == {1, 2}
Descs == 1..NumDesc

Commands == <<"sub_balance", "sub_sync_changed", "sub_coin_added", "sub_tx_update">>

\* The Invalidate descriptors.  In layouts 0 and 1 the odd descriptors declare
\* onUpdate and the even ones endpoint; in layout 0 the even descriptors carry
\* skip, in layout 1 the odd ones ({command: "sub_balance", onUpdate} is
\* descriptor 1 of layout 0).  The handler destructures both fields and tests
\* each on its own, and the union type admits an object with both (a caller
\* without type checking can also pass one with neither): in layout 2 the odd
\* descriptors declare onUpdate and endpoint, the even ones neither.
Invalidate(d, layout) ==
  [command     |-> Commands[d],
   service     |-> "littlelambocoin_wallet",
   hasOnUpdate |-> (d % 2 = 1),
   hasEndpoint |-> (IF layout = 2 THEN d % 2 = 1 ELSE d % 2 = 0),
   hasSkip     |-> ((d + layout) % 2 = 0),
   endpoint    |-> IF (IF layout = 2 THEN d % 2 = 1 ELSE d % 2 = 0) THEN d ELSE 0]

\* the invalidates arrays the handler is built with
DescriptorSets == {[d \in Descs |-> Invalidate(d, layout)] : layout \in {0, 1, 2}}

\* push payloads ({balance: 5} and {balance: 7} for wallet 1, one for wallet 2)
\* and the original query arguments of an entry
Payloads ==
  {[balance |-> 5, walletId |-> 1],
   [balance |-> 7, walletId |-> 1],
   [balance |-> 7, walletId |-> 2]}
Args(e) == [walletId |-> e]
InitialData == [balance |-> 0]

\* caller-supplied skip predicate: (p, args) => p.walletId === args.walletId
Skip(data, args) == data.walletId = args.walletId

\* caller-supplied onUpdate: (d, p) => { d.balance = p.balance }
OnUpdate(draft, data, args) == [draft EXCEPT !.balance = data.balance]

\* outcomes of one rtkQuery call: resolved with a handle, resolved without
\* data (only an error), rejected
Outcomes == {"data", "nodata", "rejected"}

\* values of thrower: no invocation raised / a collected value was not callable
NoThrow == -1
NotCallable == 0

VARIABLES
  invalidates,   \* the descriptor array the handler was built with
  managed,       \* entries for which the lifecycle handler was started
  loaded,        \* cacheDataLoaded: "pending" | "resolved" | "rejected"
  removed,       \* cacheEntryRemoved has resolved
  pc,            \* handler position: "awaitLoaded" | "awaitAll" | "finally" | "done"
  failure,       \* exception the handler holds / ended with
  call,          \* per descriptor: "none" | "pending" | "hung" | "data" | "nodata" | "rejected"
  requests,      \* the rtkQuery calls issued, in order
  unsubscribes,  \* the unsubscribes array
  closes,        \* per descriptor: number of invocations of its handle
  thrower,       \* which invocation raised inside forEach
  cache,         \* the entry's cached value
  arrivals,      \* push events delivered to the handlers, in order
  recipes,       \* recipe invocations made by updateCachedData, in order
  fetches,       \* dispatched initiate(...) actions, in order
  endpointCalls, \* number of invocations of an endpoint factory
  pushCount,     \* push events delivered so far
  thrown,        \* exceptions that left a push handler towards its caller
  handle,        \* per handle: the subscription behind it, "never" | "open" | "closed"
  released,      \* per handle: unsubscribe requests that reached the remote side
  invoked,       \* per handle: number of invocations
  handleRaised,  \* an invocation of a handle raised
  height,        \* the block height the reward functions are called with
  poolReward,    \* result of calculatePoolReward(height)
  farmerReward   \* result of calculateBaseFarmerReward(height)

vars == <<invalidates, managed, loaded, removed, pc, failure, call, requests, unsubscribes,
          closes, thrower, cache, arrivals, recipes, fetches, endpointCalls,
          pushCount, thrown, handle, released, invoked, handleRaised,
          height, poolReward, farmerReward>>

lifecycleVars == <<loaded, removed, pc, failure>>
callVars == <<call, requests, unsubscribes>>
closeVars == <<closes, thrower>>
pushVars == <<cache, arrivals, recipes, fetches, endpointCalls, pushCount, thrown>>
handleVars == <<handle, released, invoked, handleRaised>>
rewardVars == <<height, poolReward, farmerReward>>

\* ---------------------------------------------------------------- helpers
\* the request of one rtkQuery call: { command, service, args: [handler] }
SubscribeRequest(d) ==
  [command |-> invalidates[d].command,
   service |-> invalidates[d].service,
   desc    |-> d,
   nargs   |-> 1]

\* variant: the map runs twice over the array
SubscribeRequestsTwice ==
  [d \in Descs |-> SubscribeRequest(d)] \o [d \in Descs |-> SubscribeRequest(d)]

\* variant: only the first call is issued before an acknowledgment is awaited
SubscribeRequestsFirstOnly == <<SubscribeRequest(1)>>

\* invalidates.map(...): one call per descriptor, in array order
SubscribeRequests == [d \in Descs |-> SubscribeRequest(d)]

\* variant: the handle is pushed twice
CollectTwice(unsubs, d, outcome) ==
  IF outcome = "data" THEN Append(Append(unsubs, d), d) ELSE unsubs

\* variant: response.data is pushed without the if (response.data) guard
CollectUnguarded(unsubs, d, outcome) ==
  IF outcome = "data" THEN Append(unsubs, d)
  ELSE IF outcome = "nodata" THEN Append(unsubs, NotCallable)
  ELSE unsubs

\* variant: the response object is pushed instead of response.data
CollectResponse(unsubs, d, outcome) ==
  IF outcome = "data" THEN Append(unsubs, NotCallable) ELSE unsubs

\* if (response.data) unsubscribes.push(response.data)
Collect(unsubs, d, outcome) ==
  IF outcome = "data" THEN Append(unsubs, d) ELSE unsubs

\* variant: the event is discarded when skip returns true
AcceptsInverted(desc, data, args) == ~(desc.hasSkip /\ Skip(data, args))

\* variant: an event is only applied when a skip predicate returns true
AcceptsRequiresSkip(desc, data, args) == desc.hasSkip /\ Skip(data, args)

\* if (skip && !skip(data, args)) return
Accepts(desc, data, args) == ~(desc.hasSkip /\ ~Skip(data, args))

\* variant: the recipe leaves the draft untouched
UpdateCachedDataNoop(value, data, args) == value

\* updateCachedData((draft) => { onUpdate(draft, data, args) })
UpdateCachedData(value, data, args) == OnUpdate(value, data, args)

\* the record of one recipe invocation
RecipeCall(d, data, args) == [desc |-> d, data |-> data, args |-> args]

\* variant: initiate is dispatched with its default options
InitiateDefault(ep, args) ==
  [endpoint |-> ep, args |-> args, subscribe |-> TRUE, forceRefetch |-> FALSE]

\* dispatch(currentEndpoint.initiate(args, {subscribe: false, forceRefetch: true}))
Initiate(ep, args) ==
  [endpoint |-> ep, args |-> args, subscribe |-> FALSE, forceRefetch |-> TRUE]

\* variant: updateCachedData is called twice for one event
HandlerRecipesTwice(d, data, args) ==
  IF Accepts(invalidates[d], data, args) /\ invalidates[d].hasOnUpdate
  THEN <<RecipeCall(d, data, args), RecipeCall(d, data, args)>> ELSE <<>>

\* the recipes the handler runs for one event
HandlerRecipes(d, data, args) ==
  IF Accepts(invalidates[d], data, args) /\ invalidates[d].hasOnUpdate
  THEN <<RecipeCall(d, data, args)>> ELSE <<>>

\* the fetches the handler dispatches for one event
HandlerFetches(d, data, args) ==
  IF Accepts(invalidates[d], data, args) /\ invalidates[d].hasEndpoint
  THEN <<Initiate(invalidates[d].endpoint, args)>> ELSE <<>>

\* the cached value after the recipes of one event ran
RECURSIVE RunRecipes(_, _)
RunRecipes(value, rs) ==
  IF rs = <<>> THEN value
  ELSE RunRecipes(UpdateCachedData(value, Head(rs).data, Head(rs).args), Tail(rs))

\* unsubscribes.forEach((unsubscribe) => unsubscribe()) from index i on;
\* the invocation at index t raises (t = 0: no handle raises); a value that
\* is not callable raises a TypeError; an exception ends the loop
RECURSIVE ForEach(_, _, _, _)
ForEach(unsubs, i, t, cl) ==
  IF i > Len(unsubs) THEN [closes |-> cl, thrower |-> NoThrow]
  ELSE IF unsubs[i] = NotCallable THEN [closes |-> cl, thrower |-> NotCallable]
  ELSE LET cl2 == [cl EXCEPT ![unsubs[i]] = @ + 1] IN
       IF i = t THEN [closes |-> cl2, thrower |-> unsubs[i]]
       ELSE ForEach(unsubs, i + 1, t, cl2)

\* ---------------------------------------------------------------- block rewards
\* (packages/core/src/utils/blockRewards.ts)
\* A Big is an exact decimal: coefficient c times ten to the power e, kept
\* without trailing zeros in c, so that equal numbers are equal records.
RECURSIVE Big(_, _)
Big(c, e) ==
  IF c = 0 THEN [c |-> 0, e |-> 0]
  ELSE IF c % 10 = 0 THEN Big(c \div 10, e + 1)
  ELSE [c |-> c, e |-> e]

\* Big.prototype.times: the exact product
Times(a, b) == Big(a.c * b.c, a.e + b.e)

\* Big('1000000000000')
MOJO_PER_LITTLELAMBOCOIN == Big(1, 12)
BLOCKS_PER_YEAR == 1681920
\* '0.875' and '0.125'
POOL_REWARD == Big(875, -3)
FARMER_REWARD == Big(125, -3)

\* variant: the first comparison is height <= 3 * BLOCKS_PER_YEAR
calculatePoolRewardInclusive(h) ==
  IF h = 0 THEN Times(Times(MOJO_PER_LITTLELAMBOCOIN, Big(21000000, 0)), POOL_REWARD)
  ELSE IF h <= 3 * BLOCKS_PER_YEAR
    THEN Times(Times(MOJO_PER_LITTLELAMBOCOIN, Big(2, 0)), POOL_REWARD)
  ELSE IF h < 6 * BLOCKS_PER_YEAR
    THEN Times(Times(MOJO_PER_LITTLELAMBOCOIN, Big(1, 0)), POOL_REWARD)
  ELSE IF h < 9 * BLOCKS_PER_YEAR
    THEN Times(Times(MOJO_PER_LITTLELAMBOCOIN, Big(5, -1)), POOL_REWARD)
  ELSE IF h < 12 * BLOCKS_PER_YEAR
    THEN Times(Times(MOJO_PER_LITTLELAMBOCOIN, Big(25, -2)), POOL_REWARD)
  ELSE Times(Times(MOJO_PER_LITTLELAMBOCOIN, Big(125, -3)), POOL_REWARD)

calculatePoolReward(h) ==
  IF h = 0 THEN Times(Times(MOJO_PER_LITTLELAMBOCOIN, Big(21000000, 0)), POOL_REWARD)
  ELSE IF h < 3 * BLOCKS_PER_YEAR
    THEN Times(Times(MOJO_PER_LITTLELAMBOCOIN, Big(2, 0)), POOL_REWARD)
  ELSE IF h < 6 * BLOCKS_PER_YEAR
    THEN Times(Times(MOJO_PER_LITTLELAMBOCOIN, Big(1, 0)), POOL_REWARD)
  ELSE IF h < 9 * BLOCKS_PER_YEAR
    THEN Times(Times(MOJO_PER_LITTLELAMBOCOIN, Big(5, -1)), POOL_REWARD)
  ELSE IF h < 12 * BLOCKS_PER_YEAR
    THEN Times(Times(MOJO_PER_LITTLELAMBOCOIN, Big(25, -2)), POOL_REWARD)
  ELSE Times(Times(MOJO_PER_LITTLELAMBOCOIN, Big(125, -3)), POOL_REWARD)

calculateBaseFarmerReward(h) ==
  IF h = 0 THEN Times(Times(MOJO_PER_LITTLELAMBOCOIN, Big(21000000, 0)), FARMER_REWARD)
  ELSE IF h < 3 * BLOCKS_PER_YEAR
    THEN Times(Times(MOJO_PER_LITTLELAMBOCOIN, Big(2, 0)), FARMER_REWARD)
  ELSE IF h < 6 * BLOCKS_PER_YEAR
    THEN Times(Times(MOJO_PER_LITTLELAMBOCOIN, Big(1, 0)), FARMER_REWARD)
  ELSE IF h < 9 * BLOCKS_PER_YEAR
    THEN Times(Times(MOJO_PER_LITTLELAMBOCOIN, Big(5, -1)), FARMER_REWARD)
  ELSE IF h < 12 * BLOCKS_PER_YEAR
    THEN Times(Times(MOJO_PER_LITTLELAMBOCOIN, Big(25, -2)), FARMER_REWARD)
  ELSE Times(Times(MOJO_PER_LITTLELAMBOCOIN, Big(125, -3)), FARMER_REWARD)

\* the heights the functions are called with: in every period of
\* 3 * BLOCKS_PER_YEAR blocks its first, second and last block and the first
\* blocks of its second and third year
Heights ==
  {era * 3 * BLOCKS_PER_YEAR + off :
     era \in 0..MaxEra,
     off \in {0, 1, BLOCKS_PER_YEAR, 2 * BLOCKS_PER_YEAR, 3 * BLOCKS_PER_YEAR - 1}}

\* a reward that has not been calculated
NoReward == [c |-> -1, e |-> 0]

\* ---------------------------------------------------------------- initial state
InitCommon ==
  /\ loaded = [e \in Entries |-> "pending"]
  /\ removed = [e \in Entries |-> FALSE]
  /\ pc = [e \in Entries |-> "awaitLoaded"]
  /\ failure = [e \in Entries |-> "none"]
  /\ call = [e \in Entries |-> [d \in Descs |-> "none"]]
  /\ requests = [e \in Entries |-> <<>>]
  /\ unsubscribes = [e \in Entries |-> <<>>]
  /\ closes = [e \in Entries |-> [d \in Descs |-> 0]]
  /\ thrower = [e \in Entries |-> NoThrow]
  /\ cache = [e \in Entries |-> InitialData]
  /\ arrivals = [e \in Entries |-> <<>>]
  /\ recipes = [e \in Entries |-> <<>>]
  /\ fetches = [e \in Entries |-> <<>>]
  /\ endpointCalls = [e \in Entries |-> 0]
  /\ pushCount = 0
  /\ thrown = [e \in Entries |-> 0]
  /\ handle = [h \in Descs |-> "never"]
  /\ released = [h \in Descs |-> 0]
  /\ invoked = [h \in Descs |-> 0]
  /\ handleRaised = FALSE
  /\ poolReward = NoReward
  /\ farmerReward = NoReward

Init ==
  /\ invalidates \in DescriptorSets
  /\ managed = {1}
  /\ height = 0
  /\ InitCommon

\* ---------------------------------------------------------------- cache store
\* cacheDataLoaded resolves when the entry's first data arrives
LoadedResolves(e) ==
  /\ e \in managed
  /\ loaded[e] = "pending"
  /\ ~removed[e]
  /\ loaded' = [loaded EXCEPT ![e] = "resolved"]
  /\ UNCHANGED <<rewardVars, handleVars, invalidates, managed, removed, pc, failure, callVars, closeVars, pushVars>>

\* cacheEntryRemoved resolves; cacheDataLoaded rejects if still pending
EntryRemoved(e) ==
  /\ e \in managed
  /\ ~removed[e]
  /\ removed' = [removed EXCEPT ![e] = TRUE]
  /\ loaded' = [loaded EXCEPT ![e] = IF @ = "pending" THEN "rejected" ELSE @]
  /\ UNCHANGED <<rewardVars, handleVars, invalidates, managed, pc, failure, callVars, closeVars, pushVars>>

\* ---------------------------------------------------------------- handler
\* variant: the calls are issued without awaiting cacheDataLoaded
ActivateWithoutAwait(e) ==
  /\ e \in managed
  /\ pc[e] = "awaitLoaded"
  /\ requests' = [requests EXCEPT ![e] = @ \o SubscribeRequests]
  /\ call' = [call EXCEPT ![e] = [d \in Descs |-> "pending"]]
  /\ pc' = [pc EXCEPT ![e] = "awaitAll"]
  /\ UNCHANGED <<rewardVars, handleVars, invalidates, managed, loaded, removed, failure, unsubscribes, closeVars, pushVars>>

\* await cacheDataLoaded resolved: invalidates.map issues every call
Activate(e) ==
  /\ e \in managed
  /\ pc[e] = "awaitLoaded"
  /\ loaded[e] = "resolved"
  /\ requests' = [requests EXCEPT ![e] = @ \o SubscribeRequests]
  /\ call' = [call EXCEPT ![e] =
                [d \in Descs |->
                   IF \E i \in 1..Len(SubscribeRequests) : SubscribeRequests[i].desc = d
                   THEN "pending" ELSE @[d]]]
  /\ pc' = [pc EXCEPT ![e] = "awaitAll"]
  /\ UNCHANGED <<rewardVars, handleVars, invalidates, managed, loaded, removed, failure, unsubscribes, closeVars, pushVars>>

\* variant: the rejection of cacheDataLoaded is swallowed and the calls are issued
LoadedFailedSubscribes(e) ==
  /\ e \in managed
  /\ pc[e] = "awaitLoaded"
  /\ loaded[e] = "rejected"
  /\ requests' = [requests EXCEPT ![e] = @ \o SubscribeRequests]
  /\ call' = [call EXCEPT ![e] = [d \in Descs |-> "pending"]]
  /\ pc' = [pc EXCEPT ![e] = "awaitAll"]
  /\ failure' = [failure EXCEPT ![e] = "loaded"]
  /\ UNCHANGED <<rewardVars, handleVars, invalidates, managed, loaded, removed, unsubscribes, closeVars, pushVars>>

\* await cacheDataLoaded rejected: control passes to the finally block
LoadedFailed(e) ==
  /\ e \in managed
  /\ pc[e] = "awaitLoaded"
  /\ loaded[e] = "rejected"
  /\ pc' = [pc EXCEPT ![e] = "finally"]
  /\ failure' = [failure EXCEPT ![e] = "loaded"]
  /\ UNCHANGED <<rewardVars, handleVars, invalidates, managed, loaded, removed, callVars, closeVars, pushVars>>

\* variant: one unsubscribes array, created outside the per-entry handler
ArrayShared(e) == 1

\* const unsubscribes = [] inside (args, api) => ...: the array a handler
\* pushes to and iterates is the one of its own entry
ArrayOf(e) == e

\* one rtkQuery call settles and its async callback continues
Settle(e, d, outcome) ==
  /\ e \in managed
  /\ call[e][d] = "pending"
  /\ call' = [call EXCEPT ![e][d] = outcome]
  /\ unsubscribes' = [unsubscribes EXCEPT ![ArrayOf(e)] = Collect(@, d, outcome)]
  /\ UNCHANGED <<rewardVars, handleVars, invalidates, managed, lifecycleVars, requests, closeVars, pushVars>>

\* the RPC layer never answers this call
Hang(e, d) ==
  /\ e \in managed
  /\ call[e][d] = "pending"
  /\ call' = [call EXCEPT ![e][d] = "hung"]
  /\ UNCHANGED <<rewardVars, handleVars, invalidates, managed, lifecycleVars, requests, unsubscribes, closeVars, pushVars>>

\* variant: Promise.race, the wait ends with the first acknowledgment
PromiseRaceResolves(e) ==
  /\ e \in managed
  /\ pc[e] = "awaitAll"
  /\ \E d \in Descs : call[e][d] \in {"data", "nodata"}
  /\ pc' = [pc EXCEPT ![e] = "finally"]
  /\ UNCHANGED <<rewardVars, handleVars, invalidates, managed, loaded, removed, failure, callVars, closeVars, pushVars>>

\* Promise.all resolves once every callback has returned
PromiseAllResolves(e) ==
  /\ e \in managed
  /\ pc[e] = "awaitAll"
  /\ \A d \in Descs : call[e][d] \in {"data", "nodata"}
  /\ pc' = [pc EXCEPT ![e] = "finally"]
  /\ UNCHANGED <<rewardVars, handleVars, invalidates, managed, loaded, removed, failure, callVars, closeVars, pushVars>>

\* variant: after a rejection the handler starts over and subscribes again
PromiseAllRejectsRetries(e) ==
  /\ e \in managed
  /\ pc[e] = "awaitAll"
  /\ \E d \in Descs : call[e][d] = "rejected"
  /\ pc' = [pc EXCEPT ![e] = "awaitLoaded"]
  /\ failure' = [failure EXCEPT ![e] = "subscribe"]
  /\ UNCHANGED <<rewardVars, handleVars, invalidates, managed, loaded, removed, callVars, closeVars, pushVars>>

\* variant: the rejection leaves the handler at once, without a finally block
PromiseAllRejectsEscapes(e) ==
  /\ e \in managed
  /\ pc[e] = "awaitAll"
  /\ \E d \in Descs : call[e][d] = "rejected"
  /\ pc' = [pc EXCEPT ![e] = "done"]
  /\ failure' = [failure EXCEPT ![e] = "subscribe"]
  /\ UNCHANGED <<rewardVars, handleVars, invalidates, managed, loaded, removed, callVars, closeVars, pushVars>>

\* Promise.all rejects with the first rejection
PromiseAllRejects(e) ==
  /\ e \in managed
  /\ pc[e] = "awaitAll"
  /\ \E d \in Descs : call[e][d] = "rejected"
  /\ pc' = [pc EXCEPT ![e] = "finally"]
  /\ failure' = [failure EXCEPT ![e] = "subscribe"]
  /\ UNCHANGED <<rewardVars, handleVars, invalidates, managed, loaded, removed, callVars, closeVars, pushVars>>

\* variant: forEach runs without awaiting cacheEntryRemoved
TeardownWithoutAwait(e) ==
  /\ e \in managed
  /\ pc[e] = "finally"
  /\ \E t \in 0..Len(unsubscribes[e]) :
       LET r == ForEach(unsubscribes[e], 1, t, closes[e]) IN
         /\ closes' = [closes EXCEPT ![e] = r.closes]
         /\ thrower' = [thrower EXCEPT ![e] = r.thrower]
         /\ failure' = [failure EXCEPT ![e] =
                          IF r.thrower # NoThrow THEN "close" ELSE @]
  /\ pc' = [pc EXCEPT ![e] = "done"]
  /\ UNCHANGED <<rewardVars, handleVars, invalidates, managed, loaded, removed, callVars, pushVars>>

\* variant: the finally block awaits cacheDataLoaded instead of cacheEntryRemoved
TeardownAwaitsLoaded(e) ==
  /\ e \in managed
  /\ pc[e] = "finally"
  /\ loaded[e] = "resolved"
  /\ \E t \in 0..Len(unsubscribes[e]) :
       LET r == ForEach(unsubscribes[e], 1, t, closes[e]) IN
         /\ closes' = [closes EXCEPT ![e] = r.closes]
         /\ thrower' = [thrower EXCEPT ![e] = r.thrower]
         /\ failure' = [failure EXCEPT ![e] =
                          IF r.thrower # NoThrow THEN "close" ELSE @]
  /\ pc' = [pc EXCEPT ![e] = "done"]
  /\ UNCHANGED <<rewardVars, handleVars, invalidates, managed, loaded, removed, callVars, pushVars>>

\* finally { await cacheEntryRemoved; unsubscribes.forEach(...) }
Teardown(e) ==
  /\ e \in managed
  /\ pc[e] = "finally"
  /\ removed[e]
  /\ \E t \in 0..Len(unsubscribes[ArrayOf(e)]) :
       LET r == ForEach(unsubscribes[ArrayOf(e)], 1, t, closes[e]) IN
         /\ closes' = [closes EXCEPT ![e] = r.closes]
         /\ thrower' = [thrower EXCEPT ![e] = r.thrower]
         /\ failure' = [failure EXCEPT ![e] =
                          IF r.thrower # NoThrow THEN "close" ELSE @]
  /\ pc' = [pc EXCEPT ![e] = "done"]
  /\ UNCHANGED <<rewardVars, handleVars, invalidates, managed, loaded, removed, callVars, pushVars>>

\* ---------------------------------------------------------------- push events
\* variant: the handler ignores events until its call has been acknowledged
PushAfterAckOnly(e, d, data) ==
  /\ e \in managed
  /\ call[e][d] \in {"pending", "data"}
  /\ closes[e][d] = 0
  /\ pushCount < MaxPush
  /\ pushCount' = pushCount + 1
  /\ arrivals' = [arrivals EXCEPT ![e] = Append(@, [desc |-> d, data |-> data])]
  /\ LET rs == IF call[e][d] = "data" THEN HandlerRecipes(d, data, Args(e)) ELSE <<>>
         fs == IF call[e][d] = "data" THEN HandlerFetches(d, data, Args(e)) ELSE <<>>
     IN /\ recipes' = [recipes EXCEPT ![e] = @ \o rs]
        /\ cache' = [cache EXCEPT ![e] = RunRecipes(@, rs)]
        /\ fetches' = [fetches EXCEPT ![e] = @ \o fs]
        /\ endpointCalls' = [endpointCalls EXCEPT ![e] = @ + Len(fs)]
  /\ UNCHANGED <<rewardVars, handleVars, invalidates, managed, lifecycleVars, callVars, closeVars, thrown>>

\* the remote side invokes the handler passed in args with one payload
Push(e, d, data) ==
  /\ e \in managed
  /\ call[e][d] \in {"pending", "data"}
  /\ closes[e][d] = 0
  /\ pushCount < MaxPush
  /\ pushCount' = pushCount + 1
  /\ arrivals' = [arrivals EXCEPT ![e] = Append(@, [desc |-> d, data |-> data])]
  /\ recipes' = [recipes EXCEPT ![e] = @ \o HandlerRecipes(d, data, Args(e))]
  /\ cache' = [cache EXCEPT ![e] = RunRecipes(@, HandlerRecipes(d, data, Args(e)))]
  /\ fetches' = [fetches EXCEPT ![e] = @ \o HandlerFetches(d, data, Args(e))]
  /\ endpointCalls' = [endpointCalls EXCEPT ![e] =
                         @ + Len(HandlerFetches(d, data, Args(e)))]
  /\ UNCHANGED <<rewardVars, handleVars, invalidates, managed, lifecycleVars, callVars, closeVars, thrown>>

\* the caller-supplied functions of a descriptor that a push event can reach
Throwers(desc) ==
  (IF desc.hasSkip THEN {"skip"} ELSE {})
    \cup (IF desc.hasOnUpdate THEN {"onUpdate"} ELSE {})
    \cup (IF desc.hasEndpoint THEN {"endpoint"} ELSE {})

\* variant: the exception of the push handler ends the lifecycle handler
PushThrowsAbortsHandler(e, d, where) ==
  /\ e \in managed
  /\ call[e][d] \in {"pending", "data"}
  /\ closes[e][d] = 0
  /\ pushCount < MaxPush
  /\ where \in Throwers(invalidates[d])
  /\ pushCount' = pushCount + 1
  /\ thrown' = [thrown EXCEPT ![e] = @ + 1]
  /\ endpointCalls' = [endpointCalls EXCEPT ![e] =
                         IF where = "endpoint" THEN @ + 1 ELSE @]
  /\ pc' = [pc EXCEPT ![e] = "done"]
  /\ UNCHANGED <<rewardVars, handleVars, invalidates, managed, loaded, removed, failure, callVars, closeVars,
                 cache, arrivals, recipes, fetches>>

\* the remote side invokes the handler and skip, onUpdate or the endpoint
\* factory throws: nothing in the handler catches it, the exception leaves the
\* callback towards its caller; a recipe that throws leaves the value as it
\* was, a factory that throws was invoked but nothing is dispatched.  When
\* the descriptor also has onUpdate, updateCachedData has run (lines 43-47)
\* before the factory is called (line 50).
PushThrows(e, d, where) ==
  /\ e \in managed
  /\ call[e][d] \in {"pending", "data"}
  /\ closes[e][d] = 0
  /\ pushCount < MaxPush
  /\ where \in Throwers(invalidates[d])
  /\ pushCount' = pushCount + 1
  /\ thrown' = [thrown EXCEPT ![e] = @ + 1]
  /\ endpointCalls' = [endpointCalls EXCEPT ![e] =
                         IF where = "endpoint" THEN @ + 1 ELSE @]
  /\ IF where = "endpoint" /\ invalidates[d].hasOnUpdate
     THEN \E data \in Payloads :
            /\ Accepts(invalidates[d], data, Args(e))
            /\ arrivals' = [arrivals EXCEPT ![e] = Append(@, [desc |-> d, data |-> data])]
            /\ recipes' = [recipes EXCEPT ![e] = @ \o HandlerRecipes(d, data, Args(e))]
            /\ cache' = [cache EXCEPT ![e] = RunRecipes(@, HandlerRecipes(d, data, Args(e)))]
     ELSE UNCHANGED <<cache, arrivals, recipes>>
  /\ UNCHANGED <<rewardVars, handleVars, invalidates, managed, lifecycleVars, callVars, closeVars,
                 fetches>>

\* ---------------------------------------------------------------- specification
Next ==
  \/ \E e \in Entries : LoadedResolves(e)
  \/ \E e \in Entries : EntryRemoved(e)
  \/ \E e \in Entries : Activate(e)
  \/ \E e \in Entries : LoadedFailed(e)
  \/ \E e \in Entries, d \in Descs, o \in Outcomes : Settle(e, d, o)
  \/ \E e \in Entries, d \in Descs : Hang(e, d)
  \/ \E e \in Entries : PromiseAllResolves(e)
  \/ \E e \in Entries : PromiseAllRejects(e)
  \/ \E e \in Entries : Teardown(e)
  \/ \E e \in Entries, d \in Descs, data \in Payloads : Push(e, d, data)
  \/ \E e \in Entries, d \in Descs, w \in {"skip", "onUpdate", "endpoint"} :
       PushThrows(e, d, w)

Spec == Init /\ [][Next]_vars

\* The event loop runs every continuation that is ready, and every call that
\* does not hang settles.
Fairness ==
  \A e \in Entries :
    /\ WF_vars(Activate(e))
    /\ WF_vars(LoadedFailed(e))
    /\ WF_vars(PromiseAllResolves(e))
    /\ WF_vars(PromiseAllRejects(e))
    /\ WF_vars(Teardown(e))
    /\ \A d \in Descs : WF_vars(\E o \in Outcomes : Settle(e, d, o))

FairSpec == Init /\ [][Next]_vars /\ Fairness

\* The handler, the cache store and the RPC acknowledgments without push
\* events: a push callback returns to its caller (or throws towards it) and
\* never resumes or ends the handler.
NextLifecycle ==
  \/ \E e \in Entries : LoadedResolves(e)
  \/ \E e \in Entries : EntryRemoved(e)
  \/ \E e \in Entries : Activate(e)
  \/ \E e \in Entries : LoadedFailed(e)
  \/ \E e \in Entries, d \in Descs, o \in Outcomes : Settle(e, d, o)
  \/ \E e \in Entries, d \in Descs : Hang(e, d)
  \/ \E e \in Entries : PromiseAllResolves(e)
  \/ \E e \in Entries : PromiseAllRejects(e)
  \/ \E e \in Entries : Teardown(e)

FairLifecycleSpec == Init /\ [][NextLifecycle]_vars /\ Fairness

\* ---------------------------------------------------------------- handles
\* variant: invoking a handle whose subscription is not open raises
UnsubscribeStrict(st) ==
  [state    |-> IF st = "open" THEN "closed" ELSE st,
   released |-> IF st = "open" THEN 1 ELSE 0,
   raises   |-> st # "open"]

\* One invocation of the handle a subscribe call resolved with: it ends the
\* subscription if that is open, and is a no-op otherwise; it never raises.
Unsubscribe(st) ==
  [state    |-> IF st = "open" THEN "closed" ELSE st,
   released |-> IF st = "open" THEN 1 ELSE 0,
   raises   |-> FALSE]

\* the RPC layer establishes the subscription behind handle h
OpenHandle(h) ==
  /\ handle[h] = "never"
  /\ handle' = [handle EXCEPT ![h] = "open"]
  /\ UNCHANGED <<rewardVars, released, invoked, handleRaised, invalidates, managed,
                 lifecycleVars, callVars, closeVars, pushVars>>

\* handle h is invoked with no arguments
InvokeHandle(h) ==
  /\ invoked[h] < MaxInvoke
  /\ invoked' = [invoked EXCEPT ![h] = @ + 1]
  /\ handle' = [handle EXCEPT ![h] = Unsubscribe(@).state]
  /\ released' = [released EXCEPT ![h] = @ + Unsubscribe(handle[h]).released]
  /\ handleRaised' = (handleRaised \/ Unsubscribe(handle[h]).raises)
  /\ UNCHANGED <<rewardVars, invalidates, managed, lifecycleVars, callVars, closeVars, pushVars>>

InitHandle ==
  /\ invalidates = [d \in Descs |-> Invalidate(d, 0)]
  /\ managed = {}
  /\ height = 0
  /\ InitCommon

NextHandle ==
  \/ \E h \in Descs : OpenHandle(h)
  \/ \E h \in Descs : InvokeHandle(h)

HandleSpec == InitHandle /\ [][NextHandle]_vars

\* Two cache entries of the same endpoint, managed by handlers built from one
\* descriptor array (layout 0), with calls that resolve with a handle or
\* reject and push events {balance: 5, walletId: 1} on "sub_balance".
InitTwo ==
  /\ invalidates = [d \in Descs |-> Invalidate(d, 0)]
  /\ managed = {1, 2}
  /\ height = 0
  /\ InitCommon

\* ---------------------------------------------------------------- reward calls
\* calculatePoolReward is called with the height
CalculatePool ==
  /\ poolReward = NoReward
  /\ poolReward' = calculatePoolReward(height)
  /\ UNCHANGED <<height, farmerReward, handleVars, invalidates, managed,
                 lifecycleVars, callVars, closeVars, pushVars>>

\* calculateBaseFarmerReward is called with the height
CalculateFarmer ==
  /\ farmerReward = NoReward
  /\ farmerReward' = calculateBaseFarmerReward(height)
  /\ UNCHANGED <<height, poolReward, handleVars, invalidates, managed,
                 lifecycleVars, callVars, closeVars, pushVars>>

InitReward ==
  /\ invalidates = [d \in Descs |-> Invalidate(d, 0)]
  /\ managed = {}
  /\ height \in Heights
  /\ InitCommon

NextReward == CalculatePool \/ CalculateFarmer

RewardSpec == InitReward /\ [][NextReward]_vars

NextTwo ==
  \/ \E e \in Entries : LoadedResolves(e)
  \/ \E e \in Entries : EntryRemoved(e)
  \/ \E e \in Entries : Activate(e)
  \/ \E e \in Entries : LoadedFailed(e)
  \/ \E e \in Entries, d \in Descs, o \in {"data", "rejected"} : Settle(e, d, o)
  \/ \E e \in Entries : PromiseAllResolves(e)
  \/ \E e \in Entries : PromiseAllRejects(e)
  \/ \E e \in Entries : Teardown(e)
  \/ \E e \in Entries : Push(e, 1, [balance |-> 5, walletId |-> 1])

SpecTwo == InitTwo /\ [][NextTwo]_vars


\* ---------------------------------------------------------------- properties
\* the lifecycle of the handler of entry e: Pending until cacheDataLoaded
\* settles, Active inside the try block and while the finally block waits,
\* Closed once the finally block has run
Lifecycle(e) ==
  IF pc[e] = "awaitLoaded" THEN "Pending"
  ELSE IF pc[e] = "done" THEN "Closed"
  ELSE "Active"

\* position of a lifecycle state in Pending -> Active -> Closed
Rank(l) == IF l = "Pending" THEN 0 ELSE IF l = "Active" THEN 1 ELSE 2

\* the step is a push to entry e whose handler returned (an event during
\* which a caller-supplied function threw is the subject of C11)
Delivered(e) == arrivals'[e] # arrivals[e] /\ thrown'[e] = thrown[e]
LastArrival(e) == arrivals[e][Len(arrivals[e])]
NewArrival(e) == arrivals'[e][Len(arrivals'[e])]

\* the event passes the descriptor's skip check
Applied(e, ev) == ~invalidates[ev.desc].hasSkip \/ Skip(ev.data, Args(e))

\* the events of entry e that an onUpdate descriptor applies, in arrival order
UpdateEvents(e) ==
  LET T(ev) == invalidates[ev.desc].hasOnUpdate /\ Applied(e, ev)
  IN SelectSeq(arrivals[e], T)

RECURSIVE ApplyInOrder(_, _, _)
ApplyInOrder(value, evs, args) ==
  IF evs = <<>> THEN value
  ELSE ApplyInOrder(OnUpdate(value, Head(evs).data, args), Tail(evs), args)

\* C1: once the entry is loaded the handler has issued exactly one subscribe
\* call per descriptor, carrying the descriptor's command and service and one
\* argument, and the count never changes afterwards (no call before loading,
\* no retry after a rejection).
C1_ExactlyNSubscribeCalls ==
  \A e \in Entries :
    /\ pc[e] = "awaitLoaded" => requests[e] = <<>>
    /\ loaded[e] # "resolved" => requests[e] = <<>>
    /\ (pc[e] # "awaitLoaded" /\ loaded[e] = "resolved") =>
         /\ Len(requests[e]) = NumDesc
         /\ \A d \in Descs :
              \E i \in 1..Len(requests[e]) :
                /\ requests[e][i].desc = d
                /\ requests[e][i].command = invalidates[d].command
                /\ requests[e][i].service = invalidates[d].service
                /\ requests[e][i].nargs = 1
                /\ \A j \in 1..Len(requests[e]) : requests[e][j].desc = d => j = i

\* C1 witness: the handler finished after a rejected call and an
\* acknowledgment out of array order, with N calls issued
C1_Witness ==
  \E e \in Entries :
    /\ pc[e] = "done"
    /\ Len(requests[e]) = NumDesc
    /\ call[e][1] = "rejected"
    /\ unsubscribes[e] # <<>>

\* every call of entry e settles and no handle's close raises
Undisturbed(e) ==
  /\ thrower[e] = NoThrow
  /\ \A h \in Descs : call[e][h] # "hung"

\* C2 (as claimed): every established handle is eventually closed once the
\* entry is removed, also one acknowledged after the removal (stated for the
\* runs in which every call settles and no close raises).
C2_EstablishedEventuallyClosed ==
  \A e \in Entries : \A d \in Descs :
    (removed[e] /\ call[e][d] = "data")
    ~> (closes[e][d] >= 1 \/ ~Undisturbed(e))

\* C3: no handle is invoked more than once.
C3_ClosedAtMostOnce ==
  \A e \in Entries : \A d \in Descs : closes[e][d] <= 1

\* C3 witness: a handle was closed after push events, acknowledgments and removal
C3_Witness ==
  \E e \in Entries : \E d \in Descs :
    /\ closes[e][d] = 1
    /\ removed[e]
    /\ arrivals[e] # <<>>
    /\ Len(unsubscribes[e]) = NumDesc

\* C4: a push event whose skip predicate returns false changes nothing: not
\* the cached value, not the recipe log, not the fetch log, not the number of
\* endpoint factory calls.
C4_SkippedPushHasNoEffect ==
  [][\A e \in Entries :
       (Delivered(e) /\ invalidates[NewArrival(e).desc].hasSkip
          /\ ~Skip(NewArrival(e).data, Args(e)))
       => /\ cache' = cache
          /\ recipes' = recipes
          /\ fetches' = fetches
          /\ endpointCalls' = endpointCalls]_vars

\* C4 witness: after an applied update, an event for another walletId was
\* delivered to an onUpdate descriptor with skip and the value stayed
C4_Witness ==
  \E e \in Entries :
    /\ Len(arrivals[e]) = 2
    /\ invalidates[LastArrival(e).desc].hasSkip
    /\ invalidates[LastArrival(e).desc].hasOnUpdate
    /\ LastArrival(e).data.walletId # Args(e).walletId
    /\ LastArrival(e).data.balance # cache[e].balance
    /\ Len(recipes[e]) = 1
    /\ cache[e] # InitialData

\* C5: the recipe log is exactly the sequence of applied events of onUpdate
\* descriptors, each once, in arrival order, with the payload and the entry's
\* original arguments.
C5_RecipeOncePerEventInOrder ==
  \A e \in Entries :
    /\ Len(recipes[e]) = Len(UpdateEvents(e))
    /\ \A i \in 1..Len(recipes[e]) :
         /\ recipes[e][i].desc = UpdateEvents(e)[i].desc
         /\ recipes[e][i].data = UpdateEvents(e)[i].data
         /\ recipes[e][i].args = Args(e)

\* C5 witness: two different events on one onUpdate descriptor were applied
C5_Witness ==
  \E e \in Entries :
    /\ Len(recipes[e]) = 2
    /\ recipes[e][1].desc = recipes[e][2].desc
    /\ recipes[e][1].data # recipes[e][2].data

\* C6: an applied push event on an endpoint descriptor dispatches exactly one
\* initiate(args, {subscribe: false, forceRefetch: true}) of its endpoint,
\* after one factory call, and leaves the entry's own value and recipe log
\* alone.
C6_EndpointPushRefetchesOnce ==
  [][\A e \in Entries :
       (Delivered(e) /\ invalidates[NewArrival(e).desc].hasEndpoint
          /\ ~invalidates[NewArrival(e).desc].hasOnUpdate
          /\ Applied(e, NewArrival(e)))
       => /\ fetches'[e] = Append(fetches[e],
                                  [endpoint     |-> invalidates[NewArrival(e).desc].endpoint,
                                   args         |-> Args(e),
                                   subscribe    |-> FALSE,
                                   forceRefetch |-> TRUE])
          /\ endpointCalls'[e] = endpointCalls[e] + 1
          /\ cache' = cache
          /\ recipes' = recipes]_vars

\* C6 witness: with a sibling onUpdate descriptor that already applied an
\* event, an endpoint descriptor applied one
C6_Witness ==
  \E e \in Entries :
    /\ Len(arrivals[e]) = 2
    /\ invalidates[arrivals[e][1].desc].hasOnUpdate
    /\ invalidates[LastArrival(e).desc].hasEndpoint
    /\ Len(fetches[e]) = 1
    /\ Len(recipes[e]) = 1
    /\ cache[e].balance = arrivals[e][1].data.balance

\* C7: the cached value is the initial value with onUpdate applied to every
\* applied event of an onUpdate descriptor, in arrival order.
C7_ValueIsUpdatesInOrder ==
  \A e \in Entries :
    cache[e] = ApplyInOrder(InitialData, UpdateEvents(e), Args(e))

\* C7 witness: sub_balance received {balance: 5} then {balance: 7}; balance is 7
C7_Witness ==
  \E e \in Entries :
    /\ Len(arrivals[e]) = 2
    /\ \A i \in 1..2 : invalidates[arrivals[e][i].desc].command = "sub_balance"
    /\ arrivals[e][1].data.balance = 5
    /\ arrivals[e][2].data.balance = 7
    /\ cache[e].balance = 7

\* C8 (as claimed): after a rejected subscribe call, every sibling handle that
\* gets established is closed once the handler has finished.
C8_SiblingsClosedAfterRejection ==
  \A e \in Entries :
    (pc[e] = "done" /\ \E d \in Descs : call[e][d] = "rejected")
    => \A d \in Descs : call[e][d] = "data" => closes[e][d] = 1

\* C9: when teardown runs with a descriptor that was acknowledged without a
\* handle, that descriptor's handle is never invoked, no invocation fails for
\* lack of a callable, an error can only come out of an established handle's
\* own close, and without one every collected handle is closed and the
\* handler's outcome is unchanged.
C9_MissingHandleSkippedAtTeardown ==
  [][\A e \in Entries :
       (pc[e] = "finally" /\ pc'[e] = "done"
          /\ \E d \in Descs : call[e][d] = "nodata")
       => /\ \A d \in Descs : call[e][d] = "nodata" => closes'[e][d] = 0
          /\ thrower'[e] # NotCallable
          /\ thrower'[e] # NoThrow => call[e][thrower'[e]] = "data"
          /\ thrower'[e] = NoThrow =>
               /\ failure'[e] = failure[e]
               /\ \A i \in 1..Len(unsubscribes[e]) :
                    closes'[e][unsubscribes[e][i]] = 1]_vars

\* C9 witness: teardown ran with one descriptor without handle and closed another
C9_Witness ==
  \E e \in Entries :
    /\ pc[e] = "done"
    /\ failure[e] = "none"
    /\ \E d \in Descs : call[e][d] = "nodata" /\ closes[e][d] = 0
    /\ \E d \in Descs : call[e][d] = "data" /\ closes[e][d] = 1

\* C10 (as claimed): with one subscribe call that never settles, the handles
\* that were established are closed once the entry is removed.
C10_PartialSetClosedAfterRemoval ==
  \A e \in Entries : \A d \in Descs :
    (removed[e] /\ call[e][d] = "data" /\ \E h \in Descs : call[e][h] = "hung")
    ~> (closes[e][d] >= 1 \/ thrower[e] # NoThrow)

\* C11: an exception thrown by skip, onUpdate or the endpoint factory during a
\* push event leaves the lifecycle handler where it was (position, pending
\* failure, calls, collected handles, closes), and the teardown that runs after
\* such an exception still invokes every collected handle (all of them unless
\* a handle's own close raises).
C11_ThrownTriggerKeepsDeactivation ==
  [][\A e \in Entries :
       /\ thrown'[e] # thrown[e] =>
            /\ pc'[e] = pc[e]
            /\ failure'[e] = failure[e]
            /\ call'[e] = call[e]
            /\ unsubscribes'[e] = unsubscribes[e]
            /\ closes'[e] = closes[e]
       /\ (thrown[e] > 0 /\ pc[e] = "finally" /\ removed[e] /\ pc'[e] # pc[e]) =>
            /\ pc'[e] = "done"
            /\ thrower'[e] = NoThrow =>
                 \A i \in 1..Len(unsubscribes[e]) :
                   closes'[e][unsubscribes[e][i]] = 1]_vars

\* C11 witness: a trigger threw while the subscriptions were open, the entry
\* was removed and the teardown closed every handle
C11_Witness ==
  \E e \in Entries :
    /\ thrown[e] > 0
    /\ pc[e] = "done"
    /\ failure[e] = "none"
    /\ \A d \in Descs : call[e][d] = "data" /\ closes[e][d] = 1

\* C12 (as claimed): once the lifecycle handler has finished, every handle
\* established for its entry has been closed (stated for the runs in which no
\* close raises).
C12_NoSubscriptionOutlivesManager ==
  \A e \in Entries :
    (pc[e] = "done" /\ thrower[e] = NoThrow)
    => \A d \in Descs : call[e][d] = "data" => closes[e][d] >= 1

\* C13: with two entries managed at once, the teardown of one entry invokes
\* handles of that entry only, all of those established for it (unless a
\* close raises), and leaves the other entry's handles and array alone; an
\* entry's array changes only when one of its own calls is acknowledged; a
\* push event on one entry's subscription changes only that entry's value,
\* recipe log and fetch log.
C13_SubscriptionsOwnedPerEntry ==
  [][\A e \in Entries :
       /\ (pc[e] = "finally" /\ pc'[e] = "done") =>
            /\ \A o \in Entries \ {e} :
                 closes'[o] = closes[o] /\ unsubscribes'[o] = unsubscribes[o]
            /\ \A d \in Descs : closes'[e][d] > closes[e][d] => call[e][d] = "data"
            /\ thrower'[e] = NoThrow =>
                 \A d \in Descs : call[e][d] = "data" => closes'[e][d] = 1
       /\ unsubscribes'[e] # unsubscribes[e] => call'[e] # call[e]
       /\ Delivered(e) =>
            \A o \in Entries \ {e} :
              /\ cache'[o] = cache[o]
              /\ recipes'[o] = recipes[o]
              /\ fetches'[o] = fetches[o]]_vars

\* C13 witness: both entries had all subscriptions established, one entry
\* received a push event and was torn down, the other entry's handles are
\* open and its value is untouched
C13_Witness ==
  \E e \in Entries : \E o \in Entries \ {e} :
    /\ pc[e] = "done"
    /\ \A d \in Descs : call[e][d] = "data" /\ closes[e][d] = 1
    /\ \A d \in Descs : call[o][d] = "data" /\ closes[o][d] = 0
    /\ cache[e] # InitialData
    /\ cache[o] = InitialData

\* C14 (as claimed): the descriptor of every applied push event has exactly
\* one of onUpdate and endpoint, and the event performs exactly one action:
\* one recipe run or one dispatched refetch, never both and never neither.
C14_ExactlyOneActionPerEvent ==
  [][\A e \in Entries :
       (Delivered(e) /\ Applied(e, NewArrival(e))) =>
         /\ invalidates[NewArrival(e).desc].hasOnUpdate
              # invalidates[NewArrival(e).desc].hasEndpoint
         /\ (Len(recipes'[e]) - Len(recipes[e]))
              + (Len(fetches'[e]) - Len(fetches[e])) = 1
         /\ Len(recipes'[e]) >= Len(recipes[e])
         /\ Len(fetches'[e]) >= Len(fetches[e])]_vars

\* C15: invoking a handle whose subscription is closed or was never opened
\* changes nothing (no subscription state, no unsubscribe request to the
\* remote side) and no invocation raises; a subscription is released once.
C15_UnsubscribeIdempotent ==
  [][\A h \in Descs :
       /\ ~handleRaised'
       /\ released'[h] <= 1
       /\ (invoked'[h] > invoked[h] /\ handle[h] # "open") =>
            /\ handle' = handle
            /\ released' = released]_vars

\* C15 witness: one handle was invoked again after it had closed its
\* subscription, another was invoked without ever being opened
C15_Witness ==
  \E h \in Descs : \E g \in Descs :
    /\ handle[h] = "closed" /\ invoked[h] >= 2 /\ released[h] = 1
    /\ handle[g] = "never" /\ invoked[g] >= 1

\* C16: a subscribe call exists only after cacheDataLoaded has resolved.
C16_NoCallBeforeLoaded ==
  \A e \in Entries :
    (requests[e] # <<>> \/ \E d \in Descs : call[e][d] # "none")
    => loaded[e] = "resolved"

\* C16 witness: the loaded signal fired and the calls were issued right after
C16_Witness ==
  \E e \in Entries :
    /\ loaded[e] = "resolved"
    /\ pc[e] = "awaitAll"
    /\ Len(requests[e]) = NumDesc
    /\ \A d \in Descs : call[e][d] = "pending"

\* C17: a handle is invoked only after cacheEntryRemoved has resolved; until
\* then every established subscription is open and the handler has not
\* finished.
C17_NoCloseBeforeRemoved ==
  \A e \in Entries :
    ~removed[e] => /\ \A d \in Descs : closes[e][d] = 0
                   /\ pc[e] # "done"

\* C17 witness: every call was acknowledged, the handler waits in its finally
\* block for the removal and the handles are open
C17_Witness ==
  \E e \in Entries :
    /\ pc[e] = "finally"
    /\ ~removed[e]
    /\ Len(unsubscribes[e]) = NumDesc
    /\ \A d \in Descs : closes[e][d] = 0

\* C18 (as claimed): a push event delivered after the entry's removal is not
\* applied: no recipe runs and no refetch is dispatched (stated for the events
\* of an established subscription).
C18_NoPushAppliedAfterRemoval ==
  [][\A e \in Entries :
       (Delivered(e) /\ removed[e] /\ call[e][NewArrival(e).desc] = "data")
       => /\ recipes'[e] = recipes[e]
          /\ fetches'[e] = fetches[e]]_vars

\* C19: the calls of all descriptors are issued together, whatever happens to
\* any one of them afterwards, and the unsubscribes array holds exactly the
\* handles of the calls that resolved with one, each once, in any order.
C19_ParallelActivation ==
  \A e \in Entries :
    /\ (\E d \in Descs : call[e][d] # "none") => \A d \in Descs : call[e][d] # "none"
    /\ \A i \in 1..Len(unsubscribes[e]) : unsubscribes[e][i] \in Descs
    /\ \A d \in Descs :
         Cardinality({i \in 1..Len(unsubscribes[e]) : unsubscribes[e][i] = d})
           = IF call[e][d] = "data" THEN 1 ELSE 0

\* C19 witness: the first call never settles, a later one was acknowledged and
\* its handle collected
C19_Witness ==
  \E e \in Entries :
    /\ call[e][1] = "hung"
    /\ call[e][NumDesc] = "data"
    /\ unsubscribes[e] # <<>>
    /\ unsubscribes[e][Len(unsubscribes[e])] = NumDesc

\* C20: a push event of a descriptor without skip, or for which skip returns
\* true, is applied: an onUpdate descriptor runs its recipe on the value, an
\* endpoint descriptor dispatches its refetch.
C20_AppliedWhenNoSkipOrSkipTrue ==
  [][\A e \in Entries :
       (Delivered(e)
          /\ (~invalidates[NewArrival(e).desc].hasSkip
                \/ Skip(NewArrival(e).data, Args(e))))
       => /\ invalidates[NewArrival(e).desc].hasOnUpdate =>
               /\ Len(recipes'[e]) = Len(recipes[e]) + 1
               /\ cache'[e] = OnUpdate(cache[e], NewArrival(e).data, Args(e))
          /\ invalidates[NewArrival(e).desc].hasEndpoint =>
               Len(fetches'[e]) = Len(fetches[e]) + 1]_vars

\* C20 witness: an event on a descriptor without skip and an event on a
\* descriptor whose skip returned true were both applied
C20_Witness ==
  \E e \in Entries :
    /\ Len(arrivals[e]) = 2
    /\ ~invalidates[arrivals[e][1].desc].hasSkip
    /\ invalidates[arrivals[e][2].desc].hasSkip
    /\ Skip(arrivals[e][2].data, Args(e))
    /\ Len(recipes[e]) + Len(fetches[e]) = 2

\* C21 (as claimed): when the teardown has run and a handle's close raised,
\* every other collected handle has been invoked all the same.
C21_RaisingCloseDoesNotStopOthers ==
  \A e \in Entries :
    (pc[e] = "done" /\ thrower[e] \in Descs)
    => \A i \in 1..Len(unsubscribes[e]) : closes[e][unsubscribes[e][i]] >= 1

\* C22: the lifecycle of an entry's handler only moves forward along
\* Pending -> Active -> Closed; Closed is terminal, and a Closed handler
\* issues no subscribe call and invokes no handle.
C22_LifecycleMonotonic ==
  [][\A e \in Entries :
       /\ Rank(Lifecycle(e)') >= Rank(Lifecycle(e))
       /\ Lifecycle(e) = "Closed" =>
            /\ Lifecycle(e)' = "Closed"
            /\ requests'[e] = requests[e]
            /\ closes'[e] = closes[e]]_vars

\* C22 witness: the handler went through Active to Closed after a rejection,
\* and a sibling call was acknowledged while it was Closed
C22_Witness ==
  \E e \in Entries :
    /\ Lifecycle(e) = "Closed"
    /\ Len(requests[e]) = NumDesc
    /\ failure[e] = "subscribe"
    /\ \E d \in Descs : call[e][d] = "data" /\ closes[e][d] = 0
                          /\ \A i \in 1..Len(unsubscribes[e]) : unsubscribes[e][i] = d

\* C23: the handler has not finished while the entry is not removed, and once
\* the entry is removed the handler eventually finishes unless one of its
\* subscribe calls never settles.
C23_CompletesOnlyAndEventuallyAfterRemoval ==
  /\ [](\A e \in Entries : pc[e] = "done" => removed[e])
  /\ \A e \in Entries :
       removed[e] ~> (pc[e] = "done" \/ \E d \in Descs : call[e][d] = "hung")

\* C23 witness: the entry was removed, every call settled, one of them by
\* rejecting, and the handler has finished
C23_Witness ==
  \E e \in Entries :
    /\ removed[e]
    /\ pc[e] = "done"
    /\ \A d \in Descs : call[e][d] \in {"data", "nodata", "rejected"}
    /\ \E d \in Descs : call[e][d] = "rejected"
    /\ \E d \in Descs : call[e][d] = "data"

\* C24: when cacheDataLoaded rejected (the entry was removed before its data
\* arrived), the handler has issued no subscribe call, holds and has invoked
\* no handle, passes through the wait of its finally block, and has finished
\* only with the entry removed, ending with the load failure.
C24_FailedLoadSubscribesNothing ==
  \A e \in Entries :
    loaded[e] = "rejected" =>
      /\ requests[e] = <<>>
      /\ \A d \in Descs : call[e][d] = "none" /\ closes[e][d] = 0
      /\ unsubscribes[e] = <<>>
      /\ pc[e] \in {"awaitLoaded", "finally", "done"}
      /\ pc[e] = "done" => removed[e] /\ failure[e] = "loaded"

\* C24 witness: the handler finished after a failed load
C24_Witness ==
  \E e \in Entries :
    /\ loaded[e] = "rejected"
    /\ pc[e] = "done"
    /\ failure[e] = "loaded"
    /\ removed[e]

\* C25: the rejection of a subscribe call takes the handler to the wait of
\* its finally block and closes nothing; the handler stays there until the
\* entry is removed, then invokes the handles collected by then (all of them
\* unless a close raises) and ends with the rejection.
C25_RejectionPropagatesAfterTeardown ==
  [][\A e \in Entries :
       /\ (failure[e] = "none" /\ failure'[e] = "subscribe") =>
            /\ pc'[e] = "finally"
            /\ closes'[e] = closes[e]
       /\ (failure[e] = "subscribe" /\ pc'[e] # pc[e]) =>
            /\ pc[e] = "finally" /\ pc'[e] = "done"
            /\ removed[e]
            /\ thrower'[e] = NoThrow =>
                 /\ failure'[e] = "subscribe"
                 /\ \A d \in Descs :
                      closes'[e][d] =
                        IF \E i \in 1..Len(unsubscribes[e]) : unsubscribes[e][i] = d
                        THEN 1 ELSE 0]_vars

\* C25 witness: a call rejected, the handler closed the handle it had
\* collected after the removal and ended with the rejection
C25_Witness ==
  \E e \in Entries :
    /\ pc[e] = "done"
    /\ failure[e] = "subscribe"
    /\ thrower[e] = NoThrow
    /\ \E d \in Descs : call[e][d] = "rejected"
    /\ \E d \in Descs : closes[e][d] = 1

\* C26: while no subscribe call of the entry has rejected, handles are
\* invoked only in one step that happens with the entry removed and every
\* call acknowledged; until then every handle is open.  That step invokes the
\* collected handles in the order of their acknowledgments: all of them, or,
\* when a close raises, those up to the raising one.
C26_ClosingWaitsForAllAcknowledgments ==
  [][\A e \in Entries :
       (closes'[e] # closes[e] /\ \A d \in Descs : call[e][d] # "rejected") =>
         /\ removed[e]
         /\ \A d \in Descs : call[e][d] \in {"data", "nodata"}
         /\ \A d \in Descs : closes[e][d] = 0
         /\ pc'[e] = "done"
         /\ \E k \in 1..Len(unsubscribes[e]) :
              /\ \A i \in 1..Len(unsubscribes[e]) :
                   closes'[e][unsubscribes[e][i]] = IF i <= k THEN 1 ELSE 0
              /\ thrower'[e] = NoThrow => k = Len(unsubscribes[e])
              /\ thrower'[e] # NoThrow => unsubscribes[e][k] = thrower'[e]]_vars

\* C26 witness: the calls were acknowledged out of array order, the entry was
\* removed, and every handle was closed by the one teardown step
C26_Witness ==
  \E e \in Entries :
    /\ pc[e] = "done"
    /\ removed[e]
    /\ thrower[e] = NoThrow
    /\ Len(unsubscribes[e]) = NumDesc
    /\ unsubscribes[e][1] = NumDesc
    /\ \A d \in Descs : call[e][d] = "data" /\ closes[e][d] = 1

\* C27: at every point the unsubscribes array of an entry holds exactly the
\* handles of the calls acknowledged so far with a handle: one element per
\* such call, at most one per descriptor, at most N in all, and nothing else.
C27_HeldHandlesAreAcknowledgedHandles ==
  \A e \in Entries :
    LET held == {unsubscribes[e][i] : i \in 1..Len(unsubscribes[e])} IN
      /\ held = {d \in Descs : call[e][d] = "data"}
      /\ Len(unsubscribes[e]) = Cardinality(held)
      /\ Len(unsubscribes[e]) <= NumDesc

\* C27 witness: the last descriptor's call was acknowledged with a handle
\* while the first one's is pending; the array holds that one handle
C27_Witness ==
  \E e \in Entries :
    /\ call[e][1] = "pending"
    /\ call[e][NumDesc] = "data"
    /\ unsubscribes[e] = <<NumDesc>>

\* C28: what a delivered push event does depends on its descriptor, its
\* payload, the entry's arguments and the cached value only, not on whether
\* the descriptor's subscribe call is still pending or already acknowledged:
\* in both cases the skip check decides, an onUpdate descriptor runs its
\* recipe once on the value and an endpoint descriptor dispatches one refetch.
C28_PushBeforeAckAppliedAlike ==
  [][\A e \in Entries :
       Delivered(e) =>
         LET ev == NewArrival(e)
             desc == invalidates[ev.desc]
             ok == Applied(e, ev)
         IN /\ call[e][ev.desc] \in {"pending", "data"}
            /\ cache'[e] = IF ok /\ desc.hasOnUpdate
                           THEN OnUpdate(cache[e], ev.data, Args(e)) ELSE cache[e]
            /\ Len(recipes'[e]) = Len(recipes[e])
                                    + (IF ok /\ desc.hasOnUpdate THEN 1 ELSE 0)
            /\ Len(fetches'[e]) = Len(fetches[e])
                                    + (IF ok /\ desc.hasEndpoint THEN 1 ELSE 0)]_vars

\* C28 witness: an event was applied to the value while its descriptor's
\* subscribe call was not yet acknowledged
C28_Witness ==
  \E e \in Entries :
    /\ Len(recipes[e]) = 1
    /\ call[e][recipes[e][1].desc] = "pending"
    /\ cache[e] # InitialData

\* the block reward in mojo the claim states for height h
BlockReward(h) ==
  IF h = 0 THEN Big(21000000, 12)
  ELSE IF h < 3 * 1681920 THEN Big(2, 12)
  ELSE IF h < 6 * 1681920 THEN Big(1, 12)
  ELSE IF h < 9 * 1681920 THEN Big(5, 11)
  ELSE IF h < 12 * 1681920 THEN Big(25, 10)
  ELSE Big(125, 9)

\* C29: for every height h >= 0 calculatePoolReward(h) is 7/8 and
\* calculateBaseFarmerReward(h) is 1/8 of the block reward of h (21,000,000
\* coins at h = 0, then 2, 1, 0.5 and 0.25 coins for spans of 3 * 1,681,920
\* blocks, 0.125 coins from 12 * 1,681,920 on, a coin being 10^12 mojo), so
\* the pool reward is seven times the farmer reward.
C29_RewardsAreSevenAndOneEighth ==
  /\ height >= 0
  /\ poolReward # NoReward =>
       Times(poolReward, Big(8, 0)) = Times(BlockReward(height), Big(7, 0))
  /\ farmerReward # NoReward =>
       Times(farmerReward, Big(8, 0)) = BlockReward(height)
  /\ (poolReward # NoReward /\ farmerReward # NoReward) =>
       poolReward = Times(farmerReward, Big(7, 0))

\* C29 witness: both rewards were calculated for the first block that pays
\* 0.125 coins: 109,375,000,000 and 15,625,000,000 mojo
C29_Witness ==
  /\ height = 12 * 1681920
  /\ poolReward = [c |-> 109375, e |-> 6]
  /\ farmerReward = [c |-> 15625, e |-> 6]

TypeOK ==
  /\ invalidates \in DescriptorSets
  /\ managed \subseteq Entries
  /\ loaded \in [Entries -> {"pending", "resolved", "rejected"}]
  /\ removed \in [Entries -> BOOLEAN]
  /\ pc \in [Entries -> {"awaitLoaded", "awaitAll", "finally", "done"}]
  /\ failure \in [Entries -> {"none", "loaded", "subscribe", "close"}]
  /\ call \in [Entries -> [Descs -> {"none", "pending", "hung", "data", "nodata", "rejected"}]]
  /\ closes \in [Entries -> [Descs -> Nat]]
  /\ thrower \in [Entries -> {NoThrow, NotCallable} \cup Descs]
  /\ pushCount \in 0..MaxPush
  /\ thrown \in [Entries -> 0..MaxPush]
  /\ handle \in [Descs -> {"never", "open", "closed"}]
  /\ released \in [Descs -> 0..1]
  /\ invoked \in [Descs -> 0..MaxInvoke]
  /\ handleRaised \in BOOLEAN
  /\ height \in Heights
  /\ poolReward.c \in Int /\ poolReward.e \in Int
  /\ farmerReward.c \in Int /\ farmerReward.e \in Int
====
